---- MODULE Spec2Model ----
(***************************************************************************)
(* StratMaster desktop shell (apps/desktop/src-tauri/src/main.rs).         *)
(*                                                                         *)
(* Spec      : the Tauri commands check_api_health, set_api_base_url and   *)
(*             get_local_server_status running as concurrent async tasks   *)
(*             over the managed AppState, plus the setup hook of main().   *)
(* CheckSpec : Spec without get_local_server_status: the setup hook and    *)
(*             the two commands that share AppState.api_base_url.          *)
(* StatusSpec: concurrent get_local_server_status invocations alone.       *)
(* SysSpec   : get_system_info applied to a host drawn from a bounded set. *)
(***************************************************************************)
EXTENDS Integers, Sequences, FiniteSets, Bags, TLC

VARIABLES
    api_base_url,   \* AppState.api_base_url : Mutex<String> (the guarded value)
    mutex,          \* TRUE while a MutexGuard of api_base_url is alive
    main_pc,        \* position of main(): before, inside, after the setup hook
    task,           \* the command invocations in flight: a bag of task records
    last_set,       \* history: <<u>> once a set_api_base_url(u) has written, else <<>>
    last_write,     \* history: who wrote api_base_url last
    host,           \* what the host reports to get_system_info
    sys_out         \* the SystemInfo last returned by get_system_info

vars == <<api_base_url, mutex, main_pc, task, last_set, last_write, host, sys_out>>

progVars == <<api_base_url, mutex, main_pc, task, last_set, last_write>>

sysVars == <<host, sys_out>>

-----------------------------------------------------------------------------
(* Bounds and input sets *)

\* command invocations in flight at the same time
NumTasks == 2

OtherBaseUrl == "http://10.0.0.5:9000"

MalformedBaseUrl == "not a url"

\* arguments of set_api_base_url: the empty string, a base other than the
\* default, and a string that is no URL at all
Urls == {"", OtherBaseUrl, MalformedBaseUrl}

Codes == {200, 204, 503}

\* A response body: whether the text is a JSON object at all, and its members
\* as <<key, JSON type, value>>.
BodyOk == [json |-> TRUE, members |-> {<<"status", "string", "ok">>}]

BodyDegraded ==
    [json |-> TRUE,
     members |-> {<<"status", "string", "degraded">>, <<"services", "object", "db=down">>}]

BodyNoStatus == [json |-> TRUE, members |-> {<<"state", "string", "ok">>}]

BodyHtml == [json |-> FALSE, members |-> {}]

Bodies == {BodyOk, BodyDegraded, BodyNoStatus, BodyHtml}

NoBody == [json |-> FALSE, members |-> {<<"none", "none", "none">>}]

TransportError == [kind |-> "error"]

\* what `reqwest::get(&health_url).await` can resolve to in check_api_health
GetOutcomes == {TransportError} \cup [kind : {"response"}, code : Codes, body : Bodies]

\* the head of a response, all a probe of get_local_server_status looks at
HeadOutcomes == {TransportError} \cup [kind : {"response"}, code : Codes]

\* an endpoint either answers ("open") or accepts the connection and never
\* sends a byte ("silent")
Conns == {"open", "silent"}

-----------------------------------------------------------------------------
(* Pure helpers of the commands *)

\* faulty variant: the path of another service's probe
HealthUrl_WrongPath(base_url) ==
    IF base_url = "" THEN "http://localhost:8080/healthz"
    ELSE base_url \o "/health"

\* faulty variant: no fallback for the empty base
HealthUrl_NoFallback(base_url) == base_url \o "/healthz"

\* main.rs:80-84
HealthUrl(base_url) ==
    IF base_url = "" THEN "http://localhost:8080/healthz"
    ELSE base_url \o "/healthz"

\* faulty variant: only 200 OK counts
IsSuccess_Only200(code) == code = 200

\* response.status().is_success()
IsSuccess(code) == code >= 200 /\ code < 300

\* faulty variant: the guard is bound to a local and lives across the await
GuardHeldAcrossAwait == TRUE

\* is the temporary MutexGuard of `state.api_base_url.lock().unwrap().clone()`
\* still alive after the statement? No: a temporary is dropped at its end.
GuardAfterClone == FALSE

\* main.rs:193-198
Services ==
    << <<"api", "http://localhost:8080/healthz">>,
       <<"research-mcp", "http://localhost:8081/health">>,
       <<"knowledge-mcp", "http://localhost:8082/health">>,
       <<"router-mcp", "http://localhost:8083/health">> >>

\* HashMap::insert
Insert(m, k, v) == [x \in DOMAIN m \cup {k} |-> IF x = k THEN v ELSE m[x]]

EmptyMap == [x \in {} |-> FALSE]

\* response.json::<HealthResponse>() on a received body
ParsesAsHealth(body) ==
    /\ body.json
    /\ \E m \in body.members : m[1] = "status" /\ m[2] = "string"
    /\ \A m \in body.members : m[1] = "services" => m[2] \in {"object", "null"}

HealthOf(body) ==
    [status |-> (CHOOSE m \in body.members : m[1] = "status")[3],
     services |-> IF \E m \in body.members : m[1] = "services" /\ m[2] = "object"
                  THEN <<(CHOOSE m \in body.members : m[1] = "services")[3]>>
                  ELSE <<>>]

NoResult == [kind |-> "none"]

Ok(v) == [kind |-> "Ok", value |-> v]

Err(msg, detail) == [kind |-> "Err", msg |-> msg, detail |-> detail]

\* the locals of a command invocation that has just been spawned
NewTask(op, pc) ==
    [op |-> op, pc |-> pc, guard |-> FALSE, url |-> "", base_url |-> "",
     health_url |-> "", sent |-> <<>>, conn |-> "none", body |-> NoBody,
     status |-> EmptyMap, result |-> NoResult]

\* the invocation tk once its future has completed with result: its locals are
\* gone (a guard still alive goes with the future, see ReturnOf)
Completed(tk, result) ==
    [NewTask(tk.op, "done") EXCEPT !.guard = tk.guard, !.result = result]

Running == BagToSet(task)

Replace(tk, tk2) == (task (-) SetToBag({tk})) (+) SetToBag({tk2})

CanSpawn == BagCardinality(task) < NumTasks

-----------------------------------------------------------------------------
(* main(): .manage(AppState::default()) then the setup hook *)

SetupLock ==
    /\ main_pc = "setup"
    /\ ~mutex
    /\ mutex' = TRUE
    /\ main_pc' = "setup_locked"
    /\ UNCHANGED <<api_base_url, task, last_set, last_write, sysVars>>

SetupWrite ==
    /\ main_pc = "setup_locked"
    /\ api_base_url' = "http://localhost:8080"
    /\ mutex' = FALSE
    /\ main_pc' = "running"
    /\ last_write' = "setup"
    /\ UNCHANGED <<task, last_set, sysVars>>

-----------------------------------------------------------------------------
(* set_api_base_url *)

InvokeSet(url) ==
    /\ CanSpawn
    /\ task' = task (+) SetToBag({[NewTask("set", "lock") EXCEPT !.url = url]})
    /\ UNCHANGED <<api_base_url, mutex, main_pc, last_set, last_write, sysVars>>

SetLockOf(tk) ==
    /\ tk.op = "set" /\ tk.pc = "lock"
    /\ ~mutex
    /\ mutex' = TRUE
    /\ task' = Replace(tk, [tk EXCEPT !.pc = "locked", !.guard = TRUE])
    /\ UNCHANGED <<api_base_url, main_pc, last_set, last_write, sysVars>>

SetWriteOf(tk) ==
    /\ tk.op = "set" /\ tk.pc = "locked"
    /\ api_base_url' = tk.url
    /\ mutex' = FALSE
    /\ task' = Replace(tk, Completed([tk EXCEPT !.guard = FALSE], Ok("unit")))
    /\ last_set' = <<tk.url>>
    /\ last_write' = "set"
    /\ UNCHANGED <<main_pc, sysVars>>

-----------------------------------------------------------------------------
(* check_api_health *)

InvokeCheck ==
    /\ CanSpawn
    /\ task' = task (+) SetToBag({NewTask("check", "lock")})
    /\ UNCHANGED <<api_base_url, mutex, main_pc, last_set, last_write, sysVars>>

CheckLockOf(tk) ==
    /\ tk.op = "check" /\ tk.pc = "lock"
    /\ ~mutex
    /\ mutex' = TRUE
    /\ task' = Replace(tk, [tk EXCEPT !.pc = "locked", !.guard = TRUE])
    /\ UNCHANGED <<api_base_url, main_pc, last_set, last_write, sysVars>>

\* clone under the lock, end of the statement, build health_url, issue the GET
CheckCloneOf(tk, conn) ==
    /\ tk.op = "check" /\ tk.pc = "locked"
    /\ mutex' = GuardAfterClone
    /\ task' = Replace(tk, [tk EXCEPT !.guard = GuardAfterClone,
                                      !.base_url = api_base_url,
                                      !.health_url = HealthUrl(api_base_url),
                                      !.sent = <<HealthUrl(api_base_url)>>,
                                      !.conn = conn,
                                      !.pc = "get"])
    /\ UNCHANGED <<api_base_url, main_pc, last_set, last_write, sysVars>>

\* faulty variant: the base URL is looked up again once the response is in
AfterGet_RereadsBase(tk, r) ==
    IF r.kind = "response"
    THEN IF IsSuccess(r.code)
         THEN [tk EXCEPT !.pc = "json", !.body = r.body,
                         !.base_url = api_base_url,
                         !.health_url = HealthUrl(api_base_url)]
         ELSE Completed(tk, Err("API health check failed with status: ", ToString(r.code)))
    ELSE Completed(tk, Err("Failed to connect to API: ", "e"))

\* the task after `reqwest::get(&health_url).await` has resolved to r
AfterGet(tk, r) ==
    IF r.kind = "response"
    THEN IF IsSuccess(r.code)
         THEN [tk EXCEPT !.pc = "json", !.body = r.body]
         ELSE Completed(tk, Err("API health check failed with status: ", ToString(r.code)))
    ELSE Completed(tk, Err("Failed to connect to API: ", "e"))

CheckResponseOf(tk, r) ==
    /\ tk.op = "check" /\ tk.pc = "get"
    /\ tk.conn = "open"
    /\ task' = Replace(tk, AfterGet(tk, r))
    /\ UNCHANGED <<api_base_url, mutex, main_pc, last_set, last_write, sysVars>>

\* the task after `response.json::<HealthResponse>().await` has resolved
AfterJson(tk) ==
    IF ParsesAsHealth(tk.body)
    THEN Completed(tk, Ok(HealthOf(tk.body)))
    ELSE Completed(tk, Err("Failed to parse health response: ", "e"))

CheckJsonOf(tk) ==
    /\ tk.op = "check" /\ tk.pc = "json"
    /\ task' = Replace(tk, AfterJson(tk))
    /\ UNCHANGED <<api_base_url, mutex, main_pc, last_set, last_write, sysVars>>

-----------------------------------------------------------------------------
(* get_local_server_status *)

\* faulty variant: the loop gives up at the first unhealthy service
AfterProbe_ShortCircuit(tk, i, is_healthy, conn) ==
    LET status == Insert(tk.status, Services[i][1], is_healthy) IN
    IF i < Len(Services) /\ is_healthy
    THEN [tk EXCEPT !.status = status,
                    !.sent = Append(tk.sent, Services[i + 1][2]),
                    !.conn = conn]
    ELSE Completed(tk, Ok(status))

\* the loop of lines 200-206 once the probe of Services[i] gave is_healthy:
\* insert, then either the next probe (to an endpoint of kind conn) or Ok(status)
AfterProbe(tk, i, is_healthy, conn) ==
    LET status == Insert(tk.status, Services[i][1], is_healthy) IN
    IF i < Len(Services)
    THEN [tk EXCEPT !.status = status,
                    !.sent = Append(tk.sent, Services[i + 1][2]),
                    !.conn = conn]
    ELSE Completed(tk, Ok(status))

\* faulty variant: any response at all counts as healthy
IsHealthy_AnyResponse(r) == r.kind = "response"

\* match arms of lines 201-204
IsHealthy(r) == IF r.kind = "response" THEN IsSuccess(r.code) ELSE FALSE

InvokeStatus(conn) ==
    /\ CanSpawn
    /\ task' = task (+) SetToBag({[NewTask("status", "get") EXCEPT
                                      !.sent = <<Services[1][2]>>, !.conn = conn]})
    /\ UNCHANGED <<api_base_url, mutex, main_pc, last_set, last_write, sysVars>>

StatusResponseOf(tk, r, conn) ==
    /\ tk.op = "status" /\ tk.pc = "get"
    /\ tk.conn = "open"
    /\ task' = Replace(tk, AfterProbe(tk, Len(tk.sent), IsHealthy(r), conn))
    /\ UNCHANGED <<api_base_url, mutex, main_pc, last_set, last_write, sysVars>>

-----------------------------------------------------------------------------
\* the command's future completes: its result goes back to the frontend and
\* its locals, a live guard included, are dropped
ReturnOf(tk) ==
    /\ tk.pc = "done"
    /\ task' = task (-) SetToBag({tk})
    /\ mutex' = IF tk.guard THEN FALSE ELSE mutex
    /\ UNCHANGED <<api_base_url, main_pc, last_set, last_write, sysVars>>

-----------------------------------------------------------------------------
(* get_system_info *)

\* mem.total values (KB) the host may report
MemKb ==
    {0, 1953125, 4000000, 7812499, 7812500, 7812501, 9765625, 12000000,
     15624999, 15625000, 15625001, 19531250, 31250000}

MemInfos == {[ok |-> FALSE, total |-> 0]} \cup [ok : {TRUE}, total : MemKb]

Hosts == [mem_info : MemInfos, cuda_visible_devices : BOOLEAN, gpu_device : BOOLEAN]

\* u64 byte counts exceed TLC's 32-bit integers: a byte count is kept as two
\* limbs, value = hi * 1_024_000_000 + lo with 0 <= lo < 1_024_000_000
KbToBytes(kb) == [hi |-> kb \div 1000000, lo |-> (kb % 1000000) * 1024]

\* 8_000_000_000 = 7 * 1_024_000_000 + 832_000_000
Bytes8e9 == [hi |-> 7, lo |-> 832000000]

\* 16_000_000_000 = 15 * 1_024_000_000 + 640_000_000
Bytes16e9 == [hi |-> 15, lo |-> 640000000]

Gt(a, b) == a.hi > b.hi \/ (a.hi = b.hi /\ a.lo > b.lo)

\* main.rs:49-52
MemoryTotal(mem_info) == IF mem_info.ok THEN KbToBytes(mem_info.total) ELSE Bytes8e9

\* main.rs:55-56
HasGpu(h) == h.cuda_visible_devices \/ h.gpu_device

\* faulty variant: inclusive thresholds
RecommendedConfig_Inclusive(memory_total, has_gpu) ==
    IF ~Gt(Bytes16e9, memory_total) /\ has_gpu THEN "high-performance"
    ELSE IF ~Gt(Bytes8e9, memory_total) THEN "standard"
    ELSE "lightweight"

\* main.rs:59-65
RecommendedConfig(memory_total, has_gpu) ==
    IF Gt(memory_total, Bytes16e9) /\ has_gpu THEN "high-performance"
    ELSE IF Gt(memory_total, Bytes8e9) THEN "standard"
    ELSE "lightweight"

NoSystemInfo == [kind |-> "none"]

GetSystemInfo ==
    /\ LET memory_total == MemoryTotal(host.mem_info)
           has_gpu == HasGpu(host)
       IN sys_out' = Ok([memory_total |-> memory_total,
                         has_gpu |-> has_gpu,
                         recommended_config |-> RecommendedConfig(memory_total, has_gpu)])
    /\ UNCHANGED <<host, progVars>>

-----------------------------------------------------------------------------
(* Specifications *)

ProgInit ==
    /\ api_base_url = ""
    /\ mutex = FALSE
    /\ main_pc = "setup"
    /\ task = EmptyBag
    /\ last_set = <<>>
    /\ last_write = "default"

Init ==
    /\ ProgInit
    /\ host = [mem_info |-> [ok |-> FALSE, total |-> 0],
               cuda_visible_devices |-> FALSE, gpu_device |-> FALSE]
    /\ sys_out = NoSystemInfo

\* the steps of the invocations in flight
SetLock == \E tk \in Running : SetLockOf(tk)

SetWrite == \E tk \in Running : SetWriteOf(tk)

CheckLock == \E tk \in Running : CheckLockOf(tk)

CheckClone == \E tk \in Running, conn \in Conns : CheckCloneOf(tk, conn)

CheckResponse == \E tk \in Running, r \in GetOutcomes : CheckResponseOf(tk, r)

CheckJson == \E tk \in Running : CheckJsonOf(tk)

StatusResponse ==
    \E tk \in Running, r \in HeadOutcomes, conn \in Conns : StatusResponseOf(tk, r, conn)

Return == \E tk \in Running : ReturnOf(tk)

\* every command together; here set_api_base_url is given the empty string or
\* the other base only
Next ==
    \/ SetupLock
    \/ SetupWrite
    \/ \E url \in {"", OtherBaseUrl} : InvokeSet(url)
    \/ InvokeCheck
    \/ \E conn \in Conns : InvokeStatus(conn)
    \/ SetLock
    \/ SetWrite
    \/ CheckLock
    \/ CheckClone
    \/ CheckResponse
    \/ CheckJson
    \/ StatusResponse
    \/ Return

Spec == Init /\ [][Next]_vars

\* the commands that share AppState.api_base_url, and the setup hook
CheckNext ==
    \/ SetupLock
    \/ SetupWrite
    \/ \E url \in Urls : InvokeSet(url)
    \/ InvokeCheck
    \/ SetLock
    \/ SetWrite
    \/ CheckLock
    \/ CheckClone
    \/ CheckResponse
    \/ CheckJson
    \/ Return

CheckSpec == Init /\ [][CheckNext]_vars

\* get_local_server_status, which takes no AppState, on its own
StatusNext ==
    \/ \E conn \in Conns : InvokeStatus(conn)
    \/ StatusResponse
    \/ Return

StatusSpec == Init /\ [][StatusNext]_vars

SysInit ==
    /\ ProgInit
    /\ host \in Hosts
    /\ sys_out = NoSystemInfo

SysNext == GetSystemInfo

SysSpec == SysInit /\ [][SysNext]_vars

-----------------------------------------------------------------------------
(* Properties *)

\* the invocations that leave their state in this step, and the states they
\* come to: an invocation tk in Went has become the tk2 in Came
Went == BagToSet(task (-) task')

Came == BagToSet(task' (-) task)

\* tk becoming tk2 is a check_api_health that clones the shared base URL and
\* issues its request
Reads(tk, tk2) ==
    /\ tk.op = "check" /\ tk.pc = "locked"
    /\ tk2.op = "check" /\ tk2.pc = "get"

\* C1 (as claimed): once the setup hook has run and every set_api_base_url has
\* returned, the last of them being set_api_base_url(u) with no write after
\* it, a check_api_health that reads the base URL requests exactly
\* u + "/healthz", for every string u.
C1_TargetsLastSetUrl ==
    [][\A tk \in Went, tk2 \in Came :
          (/\ Reads(tk, tk2)
           /\ main_pc = "running"
           /\ last_write = "set"
           /\ \A x \in Running : x.op # "set")
              => tk2.sent = <<last_set[1] \o "/healthz">>]_vars

\* C1 (amended): a check_api_health that reads the base URL after
\* set_api_base_url(u) wrote it, with no other write in between (neither a
\* set_api_base_url nor the setup hook), requests exactly u + "/healthz" when u
\* is not empty and http://localhost:8080/healthz when u is empty.
C1_TargetsLastWrittenUrl ==
    [][\A tk \in Went, tk2 \in Came :
          (Reads(tk, tk2) /\ last_write = "set")
              => /\ last_set[1] # "" => tk2.sent = <<last_set[1] \o "/healthz">>
                 /\ last_set[1] = "" => tk2.sent = <<"http://localhost:8080/healthz">>]_vars

\* a check is on its way to the URL set last, after the default had been in place
C1_Witness ==
    /\ main_pc = "running"
    /\ last_write = "set"
    /\ last_set = <<"http://10.0.0.5:9000">>
    /\ \E tk \in Running :
          /\ tk.op = "check" /\ tk.pc = "get"
          /\ tk.base_url = "http://10.0.0.5:9000"
          /\ tk.sent = <<"http://10.0.0.5:9000/healthz">>
    /\ \A tk \in Running : tk.op # "set"

ServiceNames == {"api", "research-mcp", "knowledge-mcp", "router-mcp"}

ProbeUrls ==
    <<"http://localhost:8080/healthz", "http://localhost:8081/health",
      "http://localhost:8082/health", "http://localhost:8083/health">>

\* C2: get_local_server_status never returns an error; after k answers, whatever
\* they were, it has issued the probes of the first k+1 endpoints, one each and
\* in order; it completes when the last of one probe to each of the 4 endpoints
\* has resolved, with a map whose key set is exactly
\* {api, research-mcp, knowledge-mcp, router-mcp}.
C2_OneEntryPerEndpoint ==
    /\ [](\A tk \in Running :
            tk.op = "status" =>
                /\ tk.result.kind # "Err"
                /\ tk.pc = "get" =>
                      /\ Len(tk.sent) \in 1..4
                      /\ tk.sent = SubSeq(ProbeUrls, 1, Len(tk.sent))
                      /\ Cardinality(DOMAIN tk.status) = Len(tk.sent) - 1
                /\ tk.pc = "done" =>
                      /\ tk.result.kind = "Ok"
                      /\ DOMAIN tk.result.value = ServiceNames)
    /\ [][\A tk \in Went, tk2 \in Came :
            (tk.op = "status" /\ tk.pc = "get") =>
                /\ tk2.pc = "done" <=> tk.sent = ProbeUrls
                /\ tk2.pc = "get" <=> Len(tk2.sent) = Len(tk.sent) + 1]_vars

\* the first probes failed and the map is complete all the same
C2_Witness ==
    \E tk \in Running :
        /\ tk.op = "status" /\ tk.pc = "done"
        /\ DOMAIN tk.result.value = ServiceNames
        /\ ~tk.result.value["api"]
        /\ ~tk.result.value["research-mcp"]
        /\ tk.result.value["router-mcp"]

\* C3: when the probe of a service resolves, the entry written for that service
\* is TRUE exactly when the outcome is a response with a 2xx status, and the
\* entries of the services probed before are left as they were; the map
\* returned is the map so built.
C3_TrueIffOwn2xx ==
    [][\A tk \in Went, tk2 \in Came :
          (tk.op = "status" /\ tk.pc = "get") =>
              \A r \in HeadOutcomes :
                  (\E conn \in Conns :
                      tk2 = AfterProbe(tk, Len(tk.sent), IsHealthy(r), conn)) =>
                  LET map == IF tk2.pc = "done" THEN tk2.result.value ELSE tk2.status
                      name == Services[Len(tk.sent)][1]
                  IN /\ DOMAIN map = DOMAIN tk.status \cup {name}
                     /\ map[name] = (r.kind = "response" /\ r.code \in {200, 204})
                     /\ \A k \in DOMAIN tk.status : map[k] = tk.status[k]
                     /\ tk2.pc = "done" => tk2.result.kind = "Ok"]_vars

\* two services healthy, two not
C3_Witness ==
    \E tk \in Running :
        /\ tk.op = "status" /\ tk.pc = "done"
        /\ tk.result.value =
              [n \in ServiceNames |-> n \in {"api", "knowledge-mcp"}]

\* C4 (as claimed): check_api_health ends in exactly one of: success, a
\* connection failure, a parse failure.
C4_ThreeOutcomes ==
    \A tk \in Running :
        (tk.op = "check" /\ tk.pc = "done") =>
            \/ tk.result.kind = "Ok"
            \/ /\ tk.result.kind = "Err"
               /\ tk.result.msg \in {"Failed to connect to API: ",
                                     "Failed to parse health response: "}

WellFormed == {BodyOk, BodyDegraded}

\* C4 (amended): one request per invocation, and four outcomes: a connection
\* failure when the request cannot be completed; a status failure, told apart
\* from the others by its message, when the response is not 2xx, whatever its
\* body; a parse failure when the response is 2xx and the body is malformed;
\* success, with the status of the body, when the response is 2xx and the body
\* is a well-formed health report, and never otherwise.
C4_FourOutcomes ==
    /\ [][\A tk \in Went, tk2 \in Came :
            (tk.op = "check" /\ tk.pc = "get") =>
                \A r \in GetOutcomes :
                    tk2 = AfterGet(tk, r) =>
                    /\ r.kind = "error" =>
                          /\ tk2.pc = "done" /\ tk2.result.kind = "Err"
                          /\ tk2.result.msg = "Failed to connect to API: "
                    /\ (r.kind = "response" /\ r.code \notin {200, 204}) =>
                          /\ tk2.pc = "done" /\ tk2.result.kind = "Err"
                          /\ tk2.result.msg = "API health check failed with status: "
                    /\ (r.kind = "response" /\ r.code \in {200, 204}) =>
                          /\ tk2.pc = "json" /\ tk2.result.kind = "none"
                          /\ tk2.body = r.body /\ tk2.sent = tk.sent]_vars
    /\ [][\A tk \in Went, tk2 \in Came :
            (tk.op = "check" /\ tk.pc = "json") =>
                    /\ tk2.pc = "done"
                    /\ tk.body = BodyOk =>
                          tk2.result.kind = "Ok" /\ tk2.result.value.status = "ok"
                    /\ tk.body = BodyDegraded =>
                          tk2.result.kind = "Ok" /\ tk2.result.value.status = "degraded"
                    /\ tk.body \notin WellFormed =>
                          /\ tk2.result.kind = "Err"
                          /\ tk2.result.msg = "Failed to parse health response: "]_vars
    /\ [](\A tk \in Running :
            tk.op = "check" =>
                /\ tk.pc \in {"get", "json"} => Len(tk.sent) = 1
                /\ tk.pc \in {"lock", "locked"} => Len(tk.sent) = 0
                /\ tk.result.kind # "none" <=> tk.pc = "done")

\* a check has succeeded with the status of the body it got
C4_Witness ==
    \E tk \in Running :
        /\ tk.op = "check" /\ tk.pc = "done"
        /\ tk.result.kind = "Ok"
        /\ tk.result.value.status = "degraded"

\* C5: the tier is "high-performance" exactly when memory_total > 16e9 and the
\* GPU flag is set, otherwise "standard" exactly when memory_total > 8e9,
\* otherwise "lightweight"; 16e9 with a GPU gives "standard", 8e9 gives
\* "lightweight", and no other tier name is ever produced.  (The host reports
\* KB: 16e9 bytes are 15_625_000 KB and 8e9 bytes are 7_812_500 KB.)
C5_TierByStrictThresholds ==
    sys_out.kind = "Ok" =>
        LET info == sys_out.value
            kb == IF host.mem_info.ok THEN host.mem_info.total ELSE 7812500
            g == host.cuda_visible_devices \/ host.gpu_device
            tier == info.recommended_config
        IN /\ info.has_gpu = g
           /\ tier \in {"high-performance", "standard", "lightweight"}
           /\ tier = "high-performance" <=> (kb > 15625000 /\ g)
           /\ tier = "standard" <=> (kb > 7812500 /\ ~(kb > 15625000 /\ g))
           /\ tier = "lightweight" <=> kb <= 7812500
           /\ (info.memory_total = [hi |-> 15, lo |-> 640000000] /\ g) => tier = "standard"
           /\ info.memory_total = [hi |-> 7, lo |-> 832000000] => tier = "lightweight"

\* exactly 16e9 bytes and a GPU: "standard"
C5_Witness ==
    /\ sys_out.kind = "Ok"
    /\ host.mem_info = [ok |-> TRUE, total |-> 15625000]
    /\ sys_out.value.memory_total = [hi |-> 15, lo |-> 640000000]
    /\ sys_out.value.has_gpu
    /\ sys_out.value.recommended_config = "standard"

\* C6 (as claimed): once the setup hook has run and every set_api_base_url has
\* returned, the "api" probe of a get_local_server_status goes to the URL
\* check_api_health would request for the base URL held at that moment.
C6_ApiProbeFollowsBaseUrl ==
    [][\A conn \in Conns :
          (InvokeStatus(conn) /\ main_pc = "running" /\ \A x \in Running : x.op # "set") =>
              \E tk2 \in BagToSet(task') :
                  /\ tk2.op = "status"
                  /\ tk2.sent = <<IF api_base_url = "" THEN "http://localhost:8080/healthz"
                                  ELSE api_base_url \o "/healthz">>]_vars

\* C7 (as claimed): a probe of get_local_server_status that is in flight always
\* has a step that resolves it (an answer, or the expiry of its timeout), so
\* that the invocation goes on to return its map.
C7_EveryProbeResolves ==
    \A tk \in Running :
        (tk.op = "status" /\ tk.pc = "get") =>
            ENABLED (\E r \in HeadOutcomes, conn \in Conns : StatusResponseOf(tk, r, conn))

\* C8: the mutex is held exactly while main() or one invocation is at its
\* overwrite or clone statement; no invocation holds it while its request is
\* in flight or after; whoever holds it can release it at once; and a
\* set_api_base_url waiting for the lock gets it whenever nobody is at such a
\* statement, pending health checks or not.
C8_LockNeverAcrossRequest ==
    /\ mutex <=> (main_pc = "setup_locked" \/ \E tk \in Running : tk.guard)
    /\ \A tk \in Running : tk.guard => (tk.pc = "locked" /\ task[tk] = 1)
    /\ \A tk \in Running : tk.pc \in {"get", "json", "done"} => ~tk.guard
    /\ (main_pc = "setup_locked") => ~(\E tk \in Running : tk.guard)
    /\ mutex =>
          ENABLED (\/ SetupWrite
                   \/ \E tk \in Running : SetWriteOf(tk)
                   \/ \E tk \in Running, conn \in Conns : CheckCloneOf(tk, conn))
    /\ \A s \in Running :
          (/\ s.op = "set" /\ s.pc = "lock"
           /\ main_pc # "setup_locked"
           /\ \A x \in Running : x.pc # "locked")
              => ENABLED SetLockOf(s)

\* a set_api_base_url holds the lock while a health check's request is pending
C8_Witness ==
    /\ mutex
    /\ \E tk \in Running : tk.op = "check" /\ tk.pc = "get"
    /\ \E s \in Running : s.op = "set" /\ s.pc = "locked" /\ s.guard

\* C9: as long as no set_api_base_url has written the base URL, it is "" before
\* the setup hook and http://localhost:8080 after it, and every check_api_health
\* requests http://localhost:8080/healthz.
C9_DefaultUntilFirstSet ==
    last_set = <<>> =>
        /\ api_base_url = (IF main_pc = "running" THEN "http://localhost:8080" ELSE "")
        /\ \A tk \in Running :
              (tk.op = "check" /\ tk.pc \in {"get", "json"}) =>
                  tk.sent = <<"http://localhost:8080/healthz">>

\* a check that read the empty string of AppState::default
C9_Witness ==
    /\ last_set = <<>>
    /\ main_pc = "setup"
    /\ \E tk \in Running :
          /\ tk.op = "check" /\ tk.pc = "get"
          /\ tk.base_url = ""
          /\ tk.sent = <<"http://localhost:8080/healthz">>

\* the health-check invocations in flight
HealthChecks(bag) ==
    [tk \in {x \in BagToSet(bag) : x.op \in {"check", "status"}} |-> bag[tk]]

\* C10: a check_api_health whose request is in flight keeps the base URL it
\* cloned and the URL it requested until it completes; a step that changes the
\* shared base URL is the write of a set_api_base_url or of the setup hook and
\* changes no health check in flight, neither its target nor its result.
C10_CopyUsedThroughout ==
    /\ [][\A tk \in Went, tk2 \in Came :
            (tk.op = "check" /\ tk.pc \in {"get", "json"}) =>
                \/ tk2.pc = "done"
                \/ /\ tk2.base_url = tk.base_url
                   /\ tk2.health_url = tk.health_url
                   /\ tk2.sent = tk.sent]_vars
    /\ [][api_base_url' # api_base_url =>
            /\ HealthChecks(task') = HealthChecks(task)
            /\ \/ main_pc = "setup_locked" /\ main_pc' = "running"
               \/ \E tk \in Went, tk2 \in Came :
                     /\ tk.op = "set" /\ tk.pc = "locked" /\ tk2.pc = "done"
                     /\ api_base_url' = tk.url]_vars
    /\ [](\A tk \in Running :
            (tk.op = "check" /\ tk.pc \in {"get", "json"}) =>
                tk.sent = <<tk.health_url>>)

\* the base URL was set while a check's request to the old target is pending
C10_Witness ==
    /\ api_base_url = "http://10.0.0.5:9000"
    /\ last_write = "set"
    /\ \E tk \in Running :
          /\ tk.op = "check" /\ tk.pc = "json"
          /\ tk.base_url = "http://localhost:8080"
          /\ tk.sent = <<"http://localhost:8080/healthz">>

====
